---- MODULE Spec2Model ----
(***************************************************************************)
(* MdImgTail (src/main.py): the plugin that strips Markdown images from    *)
(* streamed Lark replies, uploads them and re-appends them at the end.     *)
(*                                                                         *)
(* Text is a sequence of tokens.  A token is a record [kind, text, dest]:  *)
(*   kind "ch"  : one character, text is "a", " " or "\n", dest is "";     *)
(*   kind "img" : one Markdown image ![text](dest).  It matches            *)
(*                img_pattern iff dest is an http(s) URL.                  *)
(* A handler runs atomically between two awaits that really suspend        *)
(* (the download and the platform upload), as asyncio schedules it.        *)
(***************************************************************************)
EXTENDS Naturals, Sequences, FiniteSets, TLC

\* ---------------------------------------------------------------- bounds
MaxEvents == 4      \* events the host delivers
MaxLen == 2         \* tokens in one streamed content
MaxImages == 2      \* image links in all the contents the host delivers
MaxText == 5        \* tokens in the content of the single-event specification
MaxTextImages == 2  \* image links in that content
MaxHooks == 3       \* NormalMessageRespondedEnd events the host delivers
MaxSeq == 2         \* largest sequence number the adapter holds at the start

Sessions == {"s1", "s2"}
URLs == {"http://a", "https://b"}
Keys == {"K1", "K2"}
Messages == {"m1", "m2"}
Cards == {"c1"}

\* hover_text of every stored record (main.py writes the two-character
\* Chinese word for "picture"; spelled in ASCII here)
hover_text == "tupian"

\* ---------------------------------------------------------------- tokens
Ch(c) == [kind |-> "ch", text |-> c, dest |-> ""]
Img(alt, d) == [kind |-> "img", text |-> alt, dest |-> d]
NL == Ch("\n")
SP == Ch(" ")
TextTokens == {Ch("a"), SP, NL}
ImgTokens == {Img("cat", u) : u \in URLs}
Tokens == TextTokens \cup ImgTokens

RECURSIVE SeqsUpTo(_, _)
SeqsUpTo(S, n) ==
    IF n = 0 THEN {<<>>}
    ELSE LET R == SeqsUpTo(S, n - 1)
         IN  R \cup {Append(r, x) : r \in {q \in R : Len(q) = n - 1}, x \in S}

\* the contents of the streaming specification: image links only
Contents == SeqsUpTo(ImgTokens, MaxLen)

\* the contents of the racing specification: empty, or one image link
Links == {<<>>} \cup {<<tok>> : tok \in ImgTokens}

\* ------------------------------------------------------- regex operators
\* img_pattern = !\[.*?\]\((https?://[^\)]+)\)
IsMatch(tok) == tok.kind = "img" /\ tok.dest \in URLs

\* img_pattern.findall(content): the captured URLs, in order
RECURSIVE findall(_)
findall(c) ==
    IF c = <<>> THEN <<>>
    ELSE IF IsMatch(Head(c)) THEN <<Head(c).dest>> \o findall(Tail(c))
         ELSE findall(Tail(c))

\* img_pattern.sub('', content, count=1)
sub_images_first(c) ==
    LET M == {j \in 1..Len(c) : IsMatch(c[j])}
    IN  IF M = {} THEN c
        ELSE LET m == CHOOSE j \in M : \A k \in M : j <= k
             IN  SubSeq(c, 1, m - 1) \o SubSeq(c, m + 1, Len(c))

\* img_pattern.sub('', content)
RECURSIVE sub_images(_)
sub_images(c) ==
    IF c = <<>> THEN <<>>
    ELSE IF IsMatch(Head(c)) THEN sub_images(Tail(c))
         ELSE <<Head(c)>> \o sub_images(Tail(c))

IsSpace(tok) == tok.kind = "ch" /\ tok.text \in {" ", "\n"}

\* the end of the greedy match of \n\s*\n that starts at c[1], 0 if none
BlankEnd(c) ==
    LET E == {j \in 2..Len(c) : c[j] = NL /\ \A k \in 2..(j - 1) : IsSpace(c[k])}
    IN  IF E = {} THEN 0 ELSE CHOOSE j \in E : \A k \in E : k <= j

\* re.sub(r'\n\s*\n', '\n', s): leftmost, greedy, non-overlapping
RECURSIVE collapse_blank(_)
collapse_blank(c) ==
    IF c = <<>> THEN <<>>
    ELSE IF Head(c) = NL /\ BlankEnd(c) > 0
         THEN <<NL>> \o collapse_blank(SubSeq(c, BlankEnd(c) + 1, Len(c)))
         ELSE <<Head(c)>> \o collapse_blank(Tail(c))

\* str.strip()
strip(c) ==
    LET N == {j \in 1..Len(c) : ~IsSpace(c[j])}
    IN  IF N = {} THEN <<>>
        ELSE SubSeq(c, CHOOSE j \in N : \A k \in N : j <= k,
                       CHOOSE j \in N : \A k \in N : k <= j)

\* lines 176-179 and 198-201
clean(content) == strip(collapse_blank(sub_images(content)))

\* '\n'.join(lines)
RECURSIVE join_lines(_)
join_lines(ls) ==
    IF ls = <<>> THEN <<>>
    ELSE IF Len(ls) = 1 THEN <<ls[1]>>
         ELSE <<ls[1], NL>> \o join_lines(Tail(ls))

\* line 170: f"![{img_info['hover_text']}]({img_info['key']})"
markdown(img_info) == Img(img_info.hover_text, img_info.key)

image_markdowns(imgs) == [j \in 1..Len(imgs) |-> markdown(imgs[j])]

\* the images joined to the text by one newline
end_content_tight(content, imgs) ==
    IF clean(content) # <<>>
    THEN clean(content) \o <<NL>> \o join_lines(image_markdowns(imgs))
    ELSE join_lines(image_markdowns(imgs))

\* lines 176-183: the terminal text
end_content(content, imgs) ==
    IF clean(content) # <<>>
    THEN clean(content) \o <<NL, NL>> \o join_lines(image_markdowns(imgs))
    ELSE join_lines(image_markdowns(imgs))

\* ----------------------------------------------------------------- state
VARIABLES
    LARK_AVAILABLE,   \* line 10/12: set once at import
    image_cache,      \* _global_image_cache: URL -> image_key (partial)
    session_images,   \* _global_session_images: session id -> list (partial)
    task,             \* per session: the process_images call in flight
    temp_files,       \* the temporary files that exist on disk
    nev,              \* events delivered so far
    nimg,             \* image links delivered so far
    last,             \* history: the outcome of the handler that finished
                      \* in the step just taken, NoLast when none did
    prev,             \* history: per session, the URLs matched by its last
                      \* finished event when that was an interim event
    uploads,          \* history: per URL, the keys acreate has returned
    reply_log,        \* history: per session, (url,key) the uploader
                      \* returned to the interim events of the current reply
    dropped,          \* history: per session, a reply was abandoned since
                      \* the last terminal event
    event,            \* history: the event delivered in the step just
                      \* taken, NoEvent when none was
    message_id_to_card_id,   \* adapter: message id -> card id (partial)
    message_id_to_sequence,  \* adapter: message id -> sequence (partial)
    hook,             \* per message: the on_responded_end call in flight
    settings_sent,    \* history: per message, the sequence numbers of the
                      \* settings requests handed to asettings, in order
    nhook             \* NormalMessageRespondedEnd events delivered so far

vars == <<LARK_AVAILABLE, image_cache, session_images, task, temp_files, nev,
          nimg, last, prev, uploads, reply_log, dropped, event,
          message_id_to_card_id, message_id_to_sequence, hook,
          settings_sent, nhook>>

\* the adapter's card state and the calls of on_responded_end
card_vars == <<message_id_to_card_id, message_id_to_sequence, hook,
               settings_sent, nhook>>

\* the state of process_images and of the uploader
image_vars == <<LARK_AVAILABLE, image_cache, session_images, task, temp_files,
                nev, nimg, last, prev, uploads, reply_log, dropped, event>>

Range(f) == {f[x] : x \in DOMAIN f}

\* d[k] = v  (also creating k)
Put(d, k, v) == [x \in DOMAIN d \cup {k} |-> IF x = k THEN v ELSE d[x]]

\* the entry left in place
Del_nothing(d, k) == d

\* del d[k]
Del(d, k) == [x \in DOMAIN d \ {k} |-> d[x]]

NoTask ==
    [pc |-> "idle", content |-> <<>>, matches |-> <<>>, i |-> 1,
     new_content |-> <<>>, file |-> 0,
     \* history: URLs matched by the session's previous interim event, URLs
     \* recorded for the session when this call began, and the indices of
     \* the matches for which the uploader was called, went on to fetch
     \* after an upload of the URL had succeeded, sent the upload request,
     \* stored a record, returned None; the cache hits
     prev |-> {}, had |-> {}, calls |-> {}, late |-> {}, sent |-> {},
     added |-> {}, failed |-> {}, hits |-> {}]

NoLast ==
    [sid |-> "", kind |-> "none", content |-> <<>>, has_reply |-> FALSE,
     reply |-> <<>>, log |-> <<>>, stale |-> FALSE, matches |-> <<>>,
     prev |-> {}, had |-> {}, calls |-> {}, late |-> {}, sent |-> {},
     added |-> {}, failed |-> {}, hits |-> {},
     \* for an __end__ event: the session's list when the event began, and
     \* whether the step before was an __end__ event of the session that
     \* appended images
     ledger |-> <<>>, after_flush |-> FALSE]

\* the event handed to process_images: the session, the adapter, its
\* reply_mode and the __end__ mark (FALSE when line 161 is not reached)
NoEvent == [sid |-> "", adapter |-> "", reply_mode |-> "", is_end |-> FALSE]

NoUploads == [keys |-> {}, last |-> ""]

NoHook == [pc |-> "idle", current_sequence |-> 0]

\* no card, no on_responded_end call
NoCards ==
    /\ message_id_to_card_id = <<>>
    /\ message_id_to_sequence = <<>>
    /\ hook = [m \in Messages |-> NoHook]
    /\ settings_sent = [m \in Messages |-> <<>>]
    /\ nhook = 0

Init ==
    /\ LARK_AVAILABLE \in BOOLEAN
    /\ image_cache = <<>>
    /\ session_images = <<>>
    /\ task = [s \in Sessions |-> NoTask]
    /\ temp_files = {}
    /\ nev = 0
    /\ nimg = 0
    /\ last = NoLast
    /\ prev = [s \in Sessions |-> {}]
    /\ uploads = [u \in URLs |-> NoUploads]
    /\ reply_log = [s \in Sessions |-> <<>>]
    /\ dropped = [s \in Sessions |-> FALSE]
    /\ event = NoEvent
    /\ NoCards

\* a process_images call of session s is suspended in an await
InFlight(s) == task[s].pc \in {"fetch", "upload"}

\* ------------------------------------------------ the loop, lines 208-222
\* The walk of one process_images call through its matches.  st holds the
\* call's view: pc, i (index of the current match), present/imgs (the
\* session's list as the call sees it), and the history fields calls,
\* late, added, failed, hits and log.
existing_urls(imgs) == {imgs[j].url : j \in 1..Len(imgs)}

\* the duplicate check left out
already_recorded_never(imgs, u) == FALSE

\* lines 209-213: the per-session duplicate check
already_recorded(imgs, u) == u \in existing_urls(imgs)

\* the cache never consulted
cache_hit_never(cache, u) == FALSE

\* lines 83-84: the uploader's cache lookup
cache_hit(cache, u) == u \in DOMAIN cache

\* line 216: if image_key
truthy(k) == k # ""

\* the record put in front of the list
store_image_front(imgs, u, k) ==
    <<[url |-> u, key |-> k, hover_text |-> hover_text]>> \o imgs

\* lines 218-222: the append
store_image(imgs, u, k) ==
    Append(imgs, [url |-> u, key |-> k, hover_text |-> hover_text])

\* lines 216-222 after the uploader returned key k for match st.i
got_key(st, u, k) ==
    IF ~truthy(k) THEN [st EXCEPT !.i = @ + 1, !.failed = @ \cup {st.i}]
    ELSE IF ~st.present THEN [st EXCEPT !.pc = "raised"]    \* KeyError, line 218
    ELSE [st EXCEPT !.imgs = store_image(@, u, k),
                    !.added = @ \cup {st.i},
                    !.log = Append(@, [url |-> u, key |-> k]),
                    !.i = @ + 1]

\* a failed upload ends the handler
got_none_abort(st, u) == [st EXCEPT !.pc = "raised", !.failed = @ \cup {st.i}]

\* lines 131-133 (or 79-81): the uploader returned None for match st.i
got_none(st, u) == [st EXCEPT !.i = @ + 1, !.failed = @ \cup {st.i}]

\* runs from match st.i to the next await that suspends, or to the end
RECURSIVE run_loop(_, _, _, _)
run_loop(matches, cache, ups, st) ==
    IF st.pc = "raised" THEN st
    ELSE IF st.i > Len(matches) THEN [st EXCEPT !.pc = "done"]
    ELSE LET u == matches[st.i] IN
         IF ~st.present THEN [st EXCEPT !.pc = "raised"]   \* KeyError, line 210
         ELSE IF already_recorded(st.imgs, u)
         THEN run_loop(matches, cache, ups, [st EXCEPT !.i = @ + 1])
         ELSE IF ~LARK_AVAILABLE                            \* lines 79-81
         THEN run_loop(matches, cache, ups,
                       got_none([st EXCEPT !.calls = @ \cup {st.i}], u))
         ELSE IF cache_hit(cache, u)                        \* lines 84-86
         THEN run_loop(matches, cache, ups,
                       got_key([st EXCEPT !.calls = @ \cup {st.i},
                                          !.hits = @ \cup {[url |-> u, key |-> cache[u],
                                                            prior |-> ups[u]]}],
                               u, cache[u]))
         ELSE [st EXCEPT !.pc = "fetch", !.calls = @ \cup {st.i},  \* line 90
                         !.late = @ \cup (IF ups[u].keys # {} THEN {st.i} ELSE {})]

\* the view of the call of session s when it resumes
View(s) ==
    [pc |-> "run", i |-> task[s].i,
     present |-> s \in DOMAIN session_images,
     imgs |-> IF s \in DOMAIN session_images THEN session_images[s] ELSE <<>>,
     calls |-> task[s].calls, added |-> task[s].added,
     failed |-> task[s].failed, hits |-> task[s].hits,
     late |-> task[s].late, log |-> reply_log[s]]

\* the outcome of a handler that has returned (line 225) or raised
Outcome(s, t, st) ==
    [sid |-> s, kind |-> IF st.pc = "done" THEN "interim" ELSE "raised",
     content |-> t.content, has_reply |-> st.pc = "done",
     reply |-> IF st.pc = "done" THEN t.new_content ELSE <<>>,
     log |-> st.log, stale |-> FALSE, matches |-> t.matches,
     prev |-> t.prev, had |-> t.had, late |-> st.late, sent |-> t.sent, calls |-> st.calls, added |-> st.added,
     failed |-> st.failed, hits |-> st.hits,
     ledger |-> <<>>, after_flush |-> FALSE]

\* one list shared by the sessions
write_list_shared(sess, s, imgs) == [x \in DOMAIN sess \cup {s} |-> imgs]

\* lines 204-205, 218: the list is the entry of session_id
write_list(sess, s, imgs) == Put(sess, s, imgs)

\* writes a suspended or finished walk back
Settle(s, t, st) ==
    /\ task' = [task EXCEPT ![s] =
                  IF st.pc = "fetch"
                  THEN [t EXCEPT !.pc = st.pc, !.i = st.i, !.calls = st.calls,
                                 !.added = st.added, !.failed = st.failed,
                                 !.hits = st.hits, !.late = st.late]
                  ELSE NoTask]
    /\ session_images' = IF st.present THEN write_list(session_images, s, st.imgs)
                         ELSE session_images
    /\ reply_log' = [reply_log EXCEPT ![s] = st.log]
    /\ last' = IF st.pc = "fetch" THEN NoLast ELSE Outcome(s, t, st)
    /\ prev' = IF st.pc = "fetch" THEN prev
               ELSE [prev EXCEPT ![s] = IF st.pc = "done" THEN Range(t.matches) ELSE {}]

\* ------------------------------------------- process_images, lines 150-225
\* the handler engaging for every adapter and mode
engages_always(adapter, reply_mode) == TRUE

\* lines 153-157: the handler engages
engages(adapter, reply_mode) ==
    adapter = "LarkAdapter" /\ reply_mode = "stream_message"

\* lines 153-157: not the Lark adapter, or not streaming
pass_through(s) ==
    /\ last' = [NoLast EXCEPT !.sid = s, !.kind = "pass"]
    /\ prev' = [prev EXCEPT ![s] = {}]
    /\ UNCHANGED <<LARK_AVAILABLE, image_cache, session_images, task,
                   temp_files, nimg, uploads, reply_log, dropped>>

\* line 166: the session has images to flush
has_images(sess, s) == s \in DOMAIN sess /\ sess[s] # <<>>

\* history: the step before was an __end__ event of s that appended images
flushed_before(s) == last.sid = s /\ last.kind = "end" /\ last.has_reply

\* lines 164-189: the __end__ event
end_event(s, content) ==
    /\ IF has_images(session_images, s)
       THEN /\ last' = [NoLast EXCEPT !.sid = s, !.kind = "end",
                                      !.content = content, !.has_reply = TRUE,
                                      !.reply = end_content(content, session_images[s]),
                                      !.log = reply_log[s], !.stale = dropped[s],
                                      !.ledger = session_images[s],
                                      !.after_flush = flushed_before(s)]
            /\ session_images' = Del(session_images, s)
       ELSE /\ last' = [NoLast EXCEPT !.sid = s, !.kind = "end",
                                      !.content = content,
                                      !.log = reply_log[s], !.stale = dropped[s],
                                      !.after_flush = flushed_before(s)]
            /\ UNCHANGED session_images
    /\ reply_log' = [reply_log EXCEPT ![s] = <<>>]
    /\ dropped' = [dropped EXCEPT ![s] = FALSE]
    /\ prev' = [prev EXCEPT ![s] = {}]
    /\ UNCHANGED <<LARK_AVAILABLE, image_cache, task, temp_files, uploads>>

\* lines 191-225: an interim event, up to its first suspension
interim_event(s, content) ==
    LET image_matches == findall(content)
        t == [NoTask EXCEPT !.content = content,
                            !.matches = image_matches,
                            !.new_content = clean(content),
                            !.prev = prev[s],
                            !.had = IF s \in DOMAIN session_images
                                    THEN existing_urls(session_images[s]) ELSE {}]
    IN  IF image_matches = <<>>                         \* lines 194-195
        THEN /\ last' = [NoLast EXCEPT !.sid = s, !.kind = "interim",
                                       !.content = content]
             /\ prev' = [prev EXCEPT ![s] = {}]
             /\ UNCHANGED <<LARK_AVAILABLE, image_cache, session_images, task,
                            temp_files, uploads, reply_log, dropped>>
        ELSE /\ Settle(s, t,
                   run_loop(image_matches, image_cache, uploads,
                       [pc |-> "run", i |-> 1, present |-> TRUE,
                        imgs |-> IF s \in DOMAIN session_images   \* 204-205
                                 THEN session_images[s] ELSE <<>>,
                        calls |-> {}, added |-> {}, failed |-> {},
                        hits |-> {}, late |-> {}, log |-> reply_log[s]]))
             /\ UNCHANGED <<LARK_AVAILABLE, image_cache, temp_files,
                            uploads, dropped>>

\* the __end__ mark never seen
is_end_event_never(is_end) == FALSE

\* lines 140-147, 161: the last response message is named __end__
is_end_event(is_end) == is_end

\* The handler of one event of session s.  The event carries the adapter,
\* its reply_mode and, read only once the handler engages (line 159), a
\* content out of C and the __end__ mark.
process_images(s, adapter, reply_mode, C) ==
    /\ nev' = nev + 1
    /\ UNCHANGED card_vars
    /\ IF ~engages(adapter, reply_mode)
       THEN /\ pass_through(s)
            /\ event' = [NoEvent EXCEPT !.sid = s, !.adapter = adapter,
                                        !.reply_mode = reply_mode]
       ELSE \E content \in C, is_end \in BOOLEAN :
               /\ nimg' = nimg + Len(findall(content))
               /\ event' = [sid |-> s, adapter |-> adapter,
                            reply_mode |-> reply_mode, is_end |-> is_end]
               /\ IF is_end_event(is_end) THEN end_event(s, content)
                  ELSE interim_event(s, content)

\* ---------------------------------- _upload_image_to_lark, lines 88-133
\* line 93: tempfile.NamedTemporaryFile picks a name that is not in use
NewFile == CHOOSE n \in 1..(Cardinality(temp_files) + 1) : n \notin temp_files

CurrentUrl(s) == task[s].matches[task[s].i]

\* lines 124-129: the finally block
unlink(files, f) == files \ {f}

\* the uploader returns None, the loop goes on
ReturnsNone(s) ==
    /\ Settle(s, task[s],
              run_loop(task[s].matches, image_cache, uploads,
                       got_none(View(s), CurrentUrl(s))))
    /\ event' = NoEvent
    /\ UNCHANGED card_vars

\* lines 66-73, 131-133: _download_image raises
download_raises(s) ==
    /\ task[s].pc = "fetch"
    /\ ReturnsNone(s)
    /\ UNCHANGED <<LARK_AVAILABLE, image_cache, temp_files, nev, nimg, uploads, dropped>>

\* lines 90-111: the bytes arrive, the file is written, the request is
\* built and sent
download_returns(s) ==
    /\ task[s].pc = "fetch"
    /\ task' = [task EXCEPT ![s].pc = "upload", ![s].file = NewFile,
                            ![s].sent = @ \cup {task[s].i}]
    /\ temp_files' = temp_files \cup {NewFile}
    /\ last' = NoLast
    /\ event' = NoEvent
    /\ UNCHANGED card_vars
    /\ UNCHANGED <<LARK_AVAILABLE, image_cache, session_images, nev, nimg,
                   prev, uploads, reply_log, dropped>>

\* lines 93-95: the file is created, write or flush raises; the with block
\* closes the file (delete=False) and the exception reaches line 131
write_raises(s) ==
    /\ task[s].pc = "fetch"
    /\ temp_files' = temp_files \cup {NewFile}
    /\ ReturnsNone(s)
    /\ UNCHANGED <<LARK_AVAILABLE, image_cache, nev, nimg, uploads, dropped>>

\* lines 97-108, 124-133: building the request raises inside the try
request_raises(s) ==
    /\ task[s].pc = "fetch"
    /\ temp_files' = unlink(temp_files \cup {NewFile}, NewFile)
    /\ ReturnsNone(s)
    /\ UNCHANGED <<LARK_AVAILABLE, image_cache, nev, nimg, uploads, dropped>>

\* lines 111-114, 124-133: acreate raises or the response is not a success
upload_fails(s) ==
    /\ task[s].pc = "upload"
    /\ temp_files' = unlink(temp_files, task[s].file)
    /\ ReturnsNone(s)
    /\ UNCHANGED <<LARK_AVAILABLE, image_cache, nev, nimg, uploads, dropped>>

\* the first key kept (setdefault)
cache_put_first(cache, u, k) == IF u \in DOMAIN cache THEN cache ELSE Put(cache, u, k)

\* line 120: self.image_cache[image_url] = image_key
cache_put(cache, u, k) == Put(cache, u, k)

\* lines 111-129, 216-222: the platform returns image_key k
upload_succeeds(s, k) ==
    /\ task[s].pc = "upload"
    /\ image_cache' = cache_put(image_cache, CurrentUrl(s), k)
    /\ uploads' = [uploads EXCEPT ![CurrentUrl(s)] =
                     [keys |-> @.keys \cup {k}, last |-> k]]
    /\ temp_files' = unlink(temp_files, task[s].file)
    /\ Settle(s, task[s],
           run_loop(task[s].matches, image_cache', uploads',
                    got_key(View(s), CurrentUrl(s), k)))
    /\ event' = NoEvent
    /\ UNCHANGED card_vars
    /\ UNCHANGED <<LARK_AVAILABLE, nev, nimg, dropped>>

\* ------------------------------------------------------------- the host
\* the contents that the image budget still allows
Affordable(C) == {c \in C : nimg + Len(findall(c)) <= MaxImages}

\* The host awaits the handler of one event of a session before it emits
\* the next event of that session; sessions run concurrently.
Deliver(s) ==
    /\ ~InFlight(s)
    /\ nev < MaxEvents
    /\ \E adapter \in {"LarkAdapter", "other"},
          reply_mode \in {"stream_message", "normal"} :
          process_images(s, adapter, reply_mode, Affordable(Contents))

\* The host gives up a reply that has uploaded images: its __end__ event is
\* never delivered, and the next event of the session opens a new reply.
DropReply(s) ==
    /\ ~InFlight(s)
    /\ reply_log[s] # <<>>
    /\ nev < MaxEvents
    /\ nev' = nev + 1
    /\ dropped' = [dropped EXCEPT ![s] = TRUE]
    /\ reply_log' = [reply_log EXCEPT ![s] = <<>>]
    /\ last' = NoLast
    /\ event' = NoEvent
    /\ UNCHANGED card_vars
    /\ UNCHANGED <<LARK_AVAILABLE, image_cache, session_images, task,
                   temp_files, nimg, prev, uploads>>

Next ==
    \E s \in Sessions :
        \/ Deliver(s)
        \/ DropReply(s)
        \/ download_raises(s)
        \/ download_returns(s)
        \/ write_raises(s)
        \/ request_raises(s)
        \/ upload_fails(s)
        \/ \E k \in Keys : upload_succeeds(s, k)

Spec == Init /\ [][Next]_vars

\* ------------------------------------------ sessions racing on one link
\* The same machine under another bound: every content holds at most one
\* image link, so that MaxEvents events leave room for two uploads of one
\* URL that overlap and a request for the URL after both.
DeliverLink(s) ==
    /\ ~InFlight(s)
    /\ nev < MaxEvents
    /\ \E adapter \in {"LarkAdapter", "other"},
          reply_mode \in {"stream_message", "normal"} :
          process_images(s, adapter, reply_mode, Links)

NextRace ==
    \E s \in Sessions :
        \/ DeliverLink(s)
        \/ download_raises(s)
        \/ download_returns(s)
        \/ write_raises(s)
        \/ request_raises(s)
        \/ upload_fails(s)
        \/ \E k \in Keys : upload_succeeds(s, k)

SpecRace == Init /\ [][NextRace]_vars

\* ------------------------------- the __end__ event overtakes a handler
\* A host that does not wait: the __end__ event of a session is handled
\* while the handler of an interim event of the session is suspended in the
\* uploader.
DeliverOverlap(s) ==
    /\ InFlight(s)
    /\ nev < MaxEvents
    /\ process_images(s, "LarkAdapter", "stream_message", Affordable(Contents))
    /\ event'.is_end

NextOverlap ==
    \E s \in Sessions :
        \/ Deliver(s)
        \/ DeliverOverlap(s)
        \/ download_raises(s)
        \/ download_returns(s)
        \/ write_raises(s)
        \/ request_raises(s)
        \/ upload_fails(s)
        \/ \E k \in Keys : upload_succeeds(s, k)

SpecOverlap == Init /\ [][NextOverlap]_vars

\* ------------------------------------------- one event on a rich content
\* The handler applied once, to a content of text and image links, in a
\* state that earlier events of the session can have left behind.
TextContents ==
    {c \in SeqsUpTo(Tokens, MaxText) : Len(findall(c)) <= MaxTextImages}

\* the lists of distinct URLs
UrlLists == {q \in SeqsUpTo(URLs, Cardinality(URLs)) :
                 \A a, b \in 1..Len(q) : q[a] = q[b] => a = b}

Caches == UNION {[U -> Keys] : U \in SUBSET URLs}

InitText ==
    /\ LARK_AVAILABLE \in BOOLEAN
    /\ image_cache \in {c \in Caches : LARK_AVAILABLE \/ DOMAIN c = {}}
    /\ session_images \in
         {<<>>} \cup
         {[x \in {"s1"} |-> [j \in 1..Len(q) |->
                               [url |-> q[j], key |-> image_cache[q[j]],
                                hover_text |-> hover_text]]] :
            q \in {r \in UrlLists : Range(r) \subseteq DOMAIN image_cache}}
    /\ task = [s \in Sessions |-> NoTask]
    /\ temp_files = {}
    /\ nev = 0
    /\ nimg = 0
    /\ last = NoLast
    /\ prev = [s \in Sessions |-> {}]
    /\ uploads = [u \in URLs |->
                    IF u \in DOMAIN image_cache
                    THEN [keys |-> {image_cache[u]}, last |-> image_cache[u]]
                    ELSE NoUploads]
    /\ reply_log = [s \in Sessions |->
                      IF s \in DOMAIN session_images
                      THEN [j \in 1..Len(session_images[s]) |->
                              [url |-> session_images[s][j].url,
                               key |-> session_images[s][j].key]]
                      ELSE <<>>]
    /\ dropped = [s \in Sessions |-> FALSE]
    /\ event = NoEvent
    /\ NoCards

DeliverText ==
    /\ nev = 0
    /\ process_images("s1", "LarkAdapter", "stream_message", TextContents)

NextText ==
    \/ DeliverText
    \/ download_raises("s1")
    \/ download_returns("s1")
    \/ write_raises("s1")
    \/ request_raises("s1")
    \/ upload_fails("s1")
    \/ \E k \in Keys : upload_succeeds("s1", k)

SpecText == InitText /\ [][NextText]_vars

\* -------------------------------------- on_responded_end, lines 228-314
\* d.get(k, default)
Get(d, k, default) == IF k \in DOMAIN d THEN d[k] ELSE default

\* lines 238-259: the hook returns without a settings request
hook_returns_early(adapter, reply_mode, message_id) ==
    \/ ~engages(adapter, reply_mode)                       \* lines 239-244
    \/ message_id = ""                                     \* lines 250-252
    \/ message_id \notin DOMAIN message_id_to_card_id      \* lines 257-259

\* lines 266-302: the sequence number is read, the request is built and
\* handed to asettings, where the hook is suspended
on_responded_end(adapter, reply_mode, message_id) ==
    /\ nhook' = nhook + 1
    /\ IF hook_returns_early(adapter, reply_mode, message_id)
       THEN UNCHANGED <<hook, settings_sent>>
       ELSE LET current_sequence == Get(message_id_to_sequence, message_id, 1)
            IN  /\ hook' = [hook EXCEPT ![message_id] =
                              [pc |-> "asettings",
                               current_sequence |-> current_sequence]]
                /\ settings_sent' = [settings_sent EXCEPT ![message_id] =
                                       Append(@, current_sequence)]
    /\ UNCHANGED <<message_id_to_card_id, message_id_to_sequence>>
    /\ UNCHANGED image_vars

\* lines 310-311: the counter advances only for a message in the mapping
advance(seq, message_id, current_sequence) ==
    IF message_id \in DOMAIN seq
    THEN [seq EXCEPT ![message_id] = @ + 1]
    ELSE seq

\* lines 302-311: asettings returns a response, success or not
asettings_returns(m) ==
    /\ hook[m].pc = "asettings"
    /\ message_id_to_sequence' =
          advance(message_id_to_sequence, m, hook[m].current_sequence)
    /\ hook' = [hook EXCEPT ![m] = NoHook]
    /\ UNCHANGED <<message_id_to_card_id, settings_sent, nhook>>
    /\ UNCHANGED image_vars

\* lines 302, 313-314: asettings raises, the exception is logged
asettings_raises(m) ==
    /\ hook[m].pc = "asettings"
    /\ hook' = [hook EXCEPT ![m] = NoHook]
    /\ UNCHANGED <<message_id_to_card_id, message_id_to_sequence,
                   settings_sent, nhook>>
    /\ UNCHANGED image_vars

\* The host delivers NormalMessageRespondedEnd for a reply to message m
\* ("" when the message chain carries no id).
RespondedEnd(m) ==
    /\ nhook < MaxHooks
    /\ m \in Messages => hook[m].pc = "idle"
    /\ \E adapter \in {"LarkAdapter", "other"},
          reply_mode \in {"stream_message", "normal"} :
          on_responded_end(adapter, reply_mode, m)

\* the adapter's mappings as its streaming code can have left them
CardMaps == UNION {[M -> Cards] : M \in SUBSET Messages}
SequenceMaps == UNION {[M -> 1..MaxSeq] : M \in SUBSET Messages}

InitCard ==
    /\ LARK_AVAILABLE = TRUE
    /\ image_cache = <<>>
    /\ session_images = <<>>
    /\ task = [s \in Sessions |-> NoTask]
    /\ temp_files = {}
    /\ nev = 0
    /\ nimg = 0
    /\ last = NoLast
    /\ prev = [s \in Sessions |-> {}]
    /\ uploads = [u \in URLs |-> NoUploads]
    /\ reply_log = [s \in Sessions |-> <<>>]
    /\ dropped = [s \in Sessions |-> FALSE]
    /\ event = NoEvent
    /\ message_id_to_card_id \in CardMaps
    /\ message_id_to_sequence \in SequenceMaps
    /\ hook = [m \in Messages |-> NoHook]
    /\ settings_sent = [m \in Messages |-> <<>>]
    /\ nhook = 0

NextCard ==
    \/ \E m \in Messages \cup {""} : RespondedEnd(m)
    \/ \E m \in Messages : asettings_returns(m)
    \/ \E m \in Messages : asettings_raises(m)

SpecCard == InitCard /\ [][NextCard]_vars

\* =============================================================== claims
\* ------------------------------------------------ what the claims speak of
\* the image lines of a text, in order
ImageLines(text) == SelectSeq(text, LAMBDA tok : tok.kind = "img")

\* the line ![displayText](key) of an uploaded image
LineOf(e) == [kind |-> "img", text |-> hover_text, dest |-> e.key]

LinesOf(log) == [j \in 1..Len(log) |-> LineOf(log[j])]

\* the lines one per line: line, newline, line, ...
OnePerLine(lines) ==
    [j \in 1..(2 * Len(lines) - 1) |->
        IF j % 2 = 1 THEN lines[(j + 1) \div 2] ELSE NL]

\* the tokens of c at the positions K, in order
AtPositions(c, K) ==
    [j \in 1..Cardinality(K) |->
        c[CHOOSE p \in K : Cardinality({q \in K : q <= p}) = j]]

WithoutImages(c) == AtPositions(c, {p \in 1..Len(c) : ~IsMatch(c[p])})

\* the whitespace run of c around position p
RunOf(c, p) == {q \in 1..Len(c) :
                  \A r \in (IF q <= p THEN q..p ELSE p..q) : IsSpace(c[r])}

\* position p of c goes away: whitespace at either end of the text, or
\* whitespace after the first and up to the last newline of a blank-line run
GoesAway(c, p) ==
    /\ IsSpace(c[p])
    /\ LET R == RunOf(c, p)
           N == {q \in R : c[q] = NL}
       IN  \/ 1 \in R
           \/ Len(c) \in R
           \/ \E f, l \in N : f < p /\ p <= l /\ \A q \in N : f <= q

\* blank lines collapsed and the ends trimmed
Tidy(c) == AtPositions(c, {p \in 1..Len(c) : ~GoesAway(c, p)})

\* the records of a session, or none
Recorded(s) == IF s \in DOMAIN session_images THEN session_images[s] ELSE <<>>

Distinct(q) == \A a, b \in 1..Len(q) : q[a] = q[b] => a = b

\* ------------------------------------------------------------------- C1
\* C1: with the interim events of a reply finished before its terminal
\* event, the terminal output ends with one image line for every image
\* that the uploader returned to those interim events, once each and in
\* the order in which the uploads completed; when no earlier reply of the
\* session was abandoned these are all the image lines of the output.
C1_TerminalShowsUploads ==
    last.kind = "end" =>
        LET lines == ImageLines(last.reply)
            want == LinesOf(last.log)
        IN  /\ Len(want) <= Len(lines)
            /\ SubSeq(lines, Len(lines) - Len(want) + 1, Len(lines)) = want
            /\ Distinct([j \in 1..Len(last.log) |-> last.log[j].url])
            /\ ~last.stale => lines = want

C1_Witness ==
    /\ last.kind = "end"
    /\ Len(last.log) = 2
    /\ last.log[1].url # last.log[2].url
    /\ last.log[1].key # last.log[2].key
    /\ last.has_reply

\* ------------------------------------------------------------------- C2
\* C2: in every reachable state no two records of one session's list have
\* the same URL.
C2_NoDuplicateUrl ==
    \A s \in DOMAIN session_images :
        Distinct([j \in 1..Len(session_images[s]) |-> session_images[s][j].url])

\* an interim content naming one URL twice was processed and stored it
C2_Witness ==
    /\ last.kind = "interim"
    /\ Len(last.matches) = 2
    /\ last.matches[1] = last.matches[2]
    /\ 1 \in last.added
    /\ Len(Recorded(last.sid)) = 1

\* ------------------------------------------------------------------- C3
\* C3: after the terminal event of a session has been processed the
\* session has no entry in session_images, also when the entry held an
\* empty list.
C3_EntryGoneAfterEnd ==
    last.kind = "end" => last.sid \notin DOMAIN session_images

\* ------------------------------------------------------------------- C4
\* the cache hits of the calls in flight and of the last finished call
AllHits == last.hits \cup UNION {task[s].hits : s \in Sessions}

\* no call went on to fetch a URL whose upload had already succeeded
NoLateFetch == last.late = {} /\ \A s \in Sessions : task[s].late = {}

\* C4 as stated: an upload request that starts after an upload of the URL
\* has succeeded fetches nothing, uploads nothing and returns the key that
\* the earlier upload returned.
C4_IdenticalKey ==
    /\ NoLateFetch
    /\ \A h \in AllHits : \A k \in h.prior.keys : h.key = k

\* C4 amended: such a request fetches nothing, uploads nothing and returns
\* the key of the most recent successful upload of the URL.
C4_LatestKey ==
    /\ NoLateFetch
    /\ \A h \in AllHits : h.prior.keys # {} /\ h.key = h.prior.last

\* a request served from the cache after two uploads of the URL succeeded
C4_Witness == \E h \in last.hits : Cardinality(h.prior.keys) = 2

\* ------------------------------------------------------------------- C5
\* C5 as stated: a cache entry, once written, keeps its value.
C5_WriteOnce ==
    [][\A u \in DOMAIN image_cache :
          u \in DOMAIN image_cache' /\ image_cache'[u] = image_cache[u]]_vars

\* C5 amended: a cache entry is never removed, and its value is changed
\* only by the completion of an upload that missed the cache before the
\* entry was first written.
C5_OverwriteOnlyByRacer ==
    [][\A u \in DOMAIN image_cache :
          /\ u \in DOMAIN image_cache'
          /\ image_cache'[u] # image_cache[u] =>
                \E s \in Sessions :
                    /\ task[s].pc = "upload"
                    /\ task[s].matches[task[s].i] = u
                    /\ task[s].i \notin task[s].late
                    /\ task'[s] # task[s]]_vars

\* two uploads of one URL have succeeded with different keys
C5_Witness == \E u \in URLs : Cardinality(uploads[u].keys) = 2

\* ------------------------------------------------------------------- C6
\* the failed matches of session s after a step
FailedAfter(s) == IF task'[s].pc = "idle" THEN last'.failed ELSE task'[s].failed

\* C6: a failed fetch or upload of one image leaves the cache as it is and
\* stores no record; the handler goes on to the other images of the
\* content, stores those that succeed and returns the stripped text.
C6_FailureDegrades ==
    /\ [](/\ last.kind # "raised"
          /\ (last.kind = "interim" /\ last.matches # <<>>) =>
               /\ last.has_reply
               /\ last.reply = Tidy(WithoutImages(last.content))
               /\ last.failed \cap last.added = {}
               /\ Len(Recorded(last.sid)) =
                     Cardinality(last.had) + Cardinality(last.added)
               /\ \A i \in 1..Len(last.matches) :
                     i \notin last.failed =>
                        \E j \in 1..Len(Recorded(last.sid)) :
                            Recorded(last.sid)[j].url = last.matches[i])
    /\ [][\A s \in Sessions :
             (InFlight(s) /\ task[s].i \in FailedAfter(s)) =>
                 /\ image_cache' = image_cache
                 /\ \/ task'[s].pc = "fetch"
                    \/ last'.sid = s /\ last'.kind = "interim"]_vars

\* the first image of a content failed, the second was uploaded and stored
C6_Witness ==
    /\ last.kind = "interim"
    /\ Len(last.matches) = 2
    /\ last.failed = {1}
    /\ last.added = {2}
    /\ 2 \in last.calls
    /\ last.hits = {}
    /\ last.reply # <<>>
    /\ last.matches[1] \notin DOMAIN image_cache

\* ------------------------------------------------------------------- C7
\* C7: no temporary file outlives the uploader call that created it: every
\* file on disk belongs to a call that is waiting for the platform.
C7_NoTempFileLeft ==
    \A f \in temp_files :
        \E s \in Sessions : task[s].pc = "upload" /\ task[s].file = f

\* ------------------------------------------------------------------- C8
\* C8: the terminal output for a session with a non-empty list is the
\* content without image links, blank lines collapsed and trimmed, then a
\* blank line, then the lines ![displayText](key) one per line in list
\* order; only the image lines when no text is left.
C8_TerminalFormat ==
    (last.kind = "end" /\ last.log # <<>>) =>
        LET text == Tidy(WithoutImages(last.content))
            tail == OnePerLine(LinesOf(last.log))
        IN  /\ last.has_reply
            /\ last.reply = IF text = <<>> THEN tail
                            ELSE text \o <<NL, NL>> \o tail

\* text, a line holding only an image link, text: the blank line that the
\* link leaves is collapsed, and two image lines follow
C8_Witness ==
    /\ last.kind = "end"
    /\ Len(last.log) = 2
    /\ last.log[1].key # last.log[2].key
    /\ \E p \in 2..(Len(last.content) - 3) :
          /\ ~IsSpace(last.content[p - 1])
          /\ last.content[p] = NL
          /\ IsMatch(last.content[p + 1])
          /\ last.content[p + 2] = NL
          /\ ~IsSpace(last.content[p + 3])
    /\ Len(last.reply) = 3 + 2 + 3

\* ------------------------------------------------------------------- C9
\* C9: the text an interim event returns holds no image link and no image
\* line, whatever became of the uploads, and every key the uploader
\* returned is stored as one record {url, key, displayText}.
C9_InterimStrips ==
    /\ (last.kind = "interim" /\ last.matches # <<>>) =>
          /\ last.has_reply
          /\ ImageLines(last.reply) = <<>>
          /\ last.reply = Tidy(WithoutImages(last.content))
    /\ \A s \in Sessions :
          Recorded(s) = [j \in 1..Len(reply_log[s]) |->
                            [url |-> reply_log[s][j].url,
                             key |-> reply_log[s][j].key,
                             hover_text |-> hover_text]]

\* text around two image links: one upload failed, one stored a record
C9_Witness ==
    /\ last.kind = "interim"
    /\ Len(last.matches) = 2
    /\ Cardinality(last.failed) = 1
    /\ Cardinality(last.added) = 1
    /\ Len(last.reply) >= 2
    /\ Len(Recorded(last.sid)) = Cardinality(last.had) + 1

\* ------------------------------------------------------------------ C10
\* C10 as stated: the second of two consecutive interim events of a
\* session sends no upload request for a URL that the first one matched,
\* and stores no record for it.
C10_NoSecondUpload ==
    /\ \A s \in Sessions : \A i \in task[s].sent \cup task[s].added :
          task[s].matches[i] \notin task[s].prev
    /\ \A i \in last.sent \cup last.added : last.matches[i] \notin last.prev

\* C10 amended: it does not call the uploader, sends no upload request
\* and stores no record for such a URL that is recorded for the session
\* when the second event begins.
C10_NoSecondUploadIfRecorded ==
    /\ \A s \in Sessions :
          \A i \in task[s].calls \cup task[s].sent \cup task[s].added :
              task[s].matches[i] \notin (task[s].prev \cap task[s].had)
    /\ \A i \in last.calls \cup last.sent \cup last.added :
          last.matches[i] \notin (last.prev \cap last.had)

\* a second chunk naming a URL that the first chunk stored has finished
C10_Witness ==
    /\ last.kind = "interim"
    /\ \E i \in 1..Len(last.matches) : last.matches[i] \in last.prev \cap last.had
    /\ last.calls = {}

\* ------------------------------------------------------------------ C11
\* the text the host goes on with: the reply the handler returned, or the
\* response text when it returned none
Output(o) == IF o.has_reply THEN o.reply ELSE o.content

\* C11: the output of a terminal event of a session with an empty or no
\* list holds no image link, and is the content itself when the content
\* holds none.
C11_TerminalWithoutImages ==
    (last.kind = "end" /\ last.ledger = <<>>) =>
        /\ ImageLines(Output(last)) = <<>>
        /\ ImageLines(last.content) = <<>> => Output(last) = last.content

\* ------------------------------------------------------------------ C12
\* C12: the output of an interim event whose content matches no image is
\* the content with blank lines collapsed and the ends trimmed.
C12_InterimWithoutMatches ==
    (last.kind = "interim" /\ last.matches = <<>>) =>
        Output(last) = Tidy(last.content)

\* ------------------------------------------------------------------ C13
\* C13: an __end__ event of a session with a non-empty list appends the
\* lines of the whole list, in list order; an __end__ event of the session
\* that follows it at once finds no list, appends no image and leaves the
\* content as it is.
C13_SecondEndAppendsNothing ==
    /\ (last.kind = "end" /\ last.ledger # <<>>) =>
          /\ last.has_reply
          /\ ImageLines(last.reply) = LinesOf(last.ledger)
    /\ (last.kind = "end" /\ last.after_flush) =>
          /\ last.ledger = <<>>
          /\ ~last.has_reply
          /\ Output(last) = last.content
          /\ last.sid \notin DOMAIN session_images

\* the second of two __end__ events in a row, the first of which appended
\* images; the content of the second holds an image link
C13_Witness ==
    /\ last.kind = "end"
    /\ last.after_flush
    /\ ImageLines(last.content) # <<>>

\* ------------------------------------------------------------------ C14
StrictlyIncreasing(q) == \A a, b \in 1..Len(q) : a < b => q[a] < q[b]

\* C14: the sequence numbers of the settings requests sent for a message
\* are strictly increasing, and once a call of on_responded_end that sent
\* one has finished, the message's counter is one greater than the number
\* sent, also when the message had no counter and 1 was sent.
C14_SequenceAdvances ==
    \A m \in Messages :
        /\ StrictlyIncreasing(settings_sent[m])
        /\ (hook[m].pc = "idle" /\ settings_sent[m] # <<>>) =>
              /\ m \in DOMAIN message_id_to_sequence
              /\ message_id_to_sequence[m] =
                    settings_sent[m][Len(settings_sent[m])] + 1

\* ------------------------------------------------------------------ C15
\* C15: the step that handles an __end__ event starts no fetch, sends no
\* upload request, writes no cache entry and adds or changes no record of
\* any session, whatever image links its content holds.
C15_EndTouchesNothing ==
    [][event'.is_end =>
          /\ task' = task
          /\ temp_files' = temp_files
          /\ uploads' = uploads
          /\ image_cache' = image_cache
          /\ \A s \in DOMAIN session_images' :
                /\ s \in DOMAIN session_images
                /\ session_images'[s] = session_images[s]]_vars

\* an __end__ event was handled whose content links a URL that was never
\* uploaded and is in no cache and no list
C15_Witness ==
    /\ event.is_end
    /\ last.kind = "end"
    /\ \E tok \in Range(last.content) :
          /\ IsMatch(tok)
          /\ tok.dest \notin DOMAIN image_cache
          /\ uploads[tok.dest].keys = {}
          /\ \A s \in Sessions : tok.dest \notin existing_urls(Recorded(s))
          /\ tok.dest \notin existing_urls(last.ledger)

\* ------------------------------------------------------------------ C16
\* C16: the step that handles an event whose adapter is not the Lark
\* adapter, or whose reply_mode is not stream_message, returns no reply,
\* leaves the cache and every session's list as they are, starts no fetch
\* and sends no upload.
C16_PassThrough ==
    [][(/\ event'.sid # ""
        /\ \/ event'.adapter # "LarkAdapter"
           \/ event'.reply_mode # "stream_message") =>
          /\ ~last'.has_reply
          /\ image_cache' = image_cache
          /\ session_images' = session_images
          /\ task' = task
          /\ temp_files' = temp_files
          /\ uploads' = uploads]_vars

\* an event of the Lark adapter in another reply_mode was handled for a
\* session that has stored images, with a cache that is not empty
C16_Witness ==
    /\ event.sid # ""
    /\ event.adapter = "LarkAdapter"
    /\ event.reply_mode = "normal"
    /\ last.sid = event.sid
    /\ ~last.has_reply
    /\ Recorded(event.sid) # <<>>
    /\ image_cache # <<>>

\* ------------------------------------------------------------------ C17
\* the records of session s for URL u
RecordsFor(s, u) == SelectSeq(Recorded(s), LAMBDA e : e.url = u)

\* C17: when tasks of different sessions upload one URL side by side no
\* handler fails; a handler that has finished left exactly one record for
\* every URL whose upload request it sent and saw succeed, holding the key
\* the platform returned to it; and the cache holds for the URL the key of
\* the upload that succeeded last.
C17_RaceIsBenign ==
    /\ last.kind # "raised"
    /\ \A u \in URLs :
          /\ u \in DOMAIN image_cache <=> uploads[u].keys # {}
          /\ u \in DOMAIN image_cache => image_cache[u] = uploads[u].last
    /\ \A s \in Sessions : \A u \in URLs :
          /\ Len(RecordsFor(s, u)) <= 1
          /\ \A j \in 1..Len(RecordsFor(s, u)) :
                /\ RecordsFor(s, u)[j].key \in uploads[u].keys
                /\ \E n \in 1..Len(reply_log[s]) :
                      reply_log[s][n] = [url |-> u, key |-> RecordsFor(s, u)[j].key]
    /\ last.kind = "interim" =>
          \A i \in (last.sent \cap last.added) :
              Len(RecordsFor(last.sid, last.matches[i])) = 1

\* two sessions missed the cache for one URL and both uploaded it: the one
\* that finished second has returned, each session holds one record for
\* the URL, with different keys, and the cache holds the second one's key
C17_Witness ==
    /\ last.kind = "interim"
    /\ last.sent = {1} /\ last.added = {1} /\ last.late = {}
    /\ LET u == last.matches[1]
       IN  /\ Cardinality(uploads[u].keys) = 2
           /\ \A s \in Sessions : Len(RecordsFor(s, u)) = 1
           /\ \E s \in Sessions \ {last.sid} :
                 RecordsFor(s, u)[1].key # RecordsFor(last.sid, u)[1].key
           /\ image_cache[u] = RecordsFor(last.sid, u)[1].key

\* ------------------------------------------------------------------ C18
\* C18: a handler of an interim event that was suspended in the uploader
\* while the __end__ event of its session was handled finds the session's
\* list when it resumes and returns; it does not raise.
C18_ResumesNormally == last.kind # "raised"

\* ------------------------------------------------------------------ C19
\* C19: every image that the __end__ event of a reply appends was
\* uploaded for an interim event of that reply; a record left by an
\* earlier reply of the session that was abandoned is not appended.
C19_OnlyThisReply ==
    (last.kind = "end" /\ last.has_reply) =>
        /\ ImageLines(last.reply) = LinesOf(last.ledger)
        /\ \A j \in 1..Len(last.ledger) :
              \E n \in 1..Len(last.log) :
                  /\ last.log[n].url = last.ledger[j].url
                  /\ last.log[n].key = last.ledger[j].key

\* ------------------------------------------------------------------ C20
\* the entry of session s in session_images: whether there is one, and its
\* list
Entry(sess, s) == IF s \in DOMAIN sess THEN <<TRUE, sess[s]>> ELSE <<FALSE, <<>>>>

KeysOf(q) == {q[j].key : j \in 1..Len(q)}

\* C20: the entry of a session is added, removed or changed only by a
\* step of that session, the handling of one of its events or the return
\* of the uploader to one of its handlers; and the keys in the image lines
\* of a session's terminal output are keys of that session's own list.
C20_SessionsIsolated ==
    /\ []((last.kind = "end" /\ last.has_reply) =>
            {tok.dest : tok \in Range(ImageLines(last.reply))}
                \subseteq KeysOf(last.ledger))
    /\ [][\A s \in Sessions :
             Entry(session_images', s) # Entry(session_images, s) =>
                 \/ event'.sid = s
                 \/ event' = NoEvent /\ task'[s] # task[s]]_vars

\* the terminal output of one session was built while the other session
\* held a record with a key that is not in the first session's list
C20_Witness ==
    /\ last.kind = "end"
    /\ last.has_reply
    /\ \E s \in Sessions \ {last.sid} :
          /\ Recorded(s) # <<>>
          /\ KeysOf(Recorded(s)) \cap KeysOf(last.ledger) = {}

TypeOK ==
    /\ DOMAIN image_cache \subseteq URLs
    /\ DOMAIN session_images \subseteq Sessions
    /\ \A s \in Sessions : task[s].pc \in {"idle", "fetch", "upload"}

====
